---- MODULE Spec2Model ----
(***************************************************************************)
(* Model of the rbot five-in-a-row engine (src/src/main.rs): the shared    *)
(* GameState behind a Mutex, the move selection (opening book, scorer)     *)
(* and the per-connection request loop of handle_client.                   *)
(***************************************************************************)
EXTENDS Integers, Sequences, FiniteSets, TLC

\* ------------------------------------------------------------------------
\* Program constants
\* ------------------------------------------------------------------------
BOARD_SIZE == 31
CENTER == 15

\* ------------------------------------------------------------------------
\* Bounds of the model
\* ------------------------------------------------------------------------
\* Number of client connections (threads running handle_client).
NumConns == 3
\* Total number of non-empty lines the clients send (Spec, SpecErr).
MaxLines == 3
\* Number of non-empty lines the single client of SpecGame sends.
MaxGameLines == 5
\* Total number of non-empty lines the clients of SpecConc send.
MaxConcLines == 3
\* Number of connections that send lines in SpecConc.
NumConcConns == 2
\* Number of connections of SpecEof, and the total number of non-empty lines
\* their clients send.
NumEofConns == 2
MaxEofLines == 2
\* Number of non-empty lines the single client of SpecThreat sends.
MaxThreatLines == 4
\* Number of non-empty lines the single client of SpecFill sends.
MaxFillLines == 962
\* Number of empty cells from which SpecFill explores every line and every
\* outcome of the random choice.
FreeTail == 2

Conns == 1..NumConns
ConcConns == 1..NumConcConns
EofConns == 1..NumEofConns

\* GameState::new, all_debuts: the opening book.
all_debuts ==
  << << <<15,15>>, <<16,15>>, <<14,14>>, <<13,15>> >>,
     << <<15,15>>, <<15,14>>, <<16,16>>, <<14,14>> >>,
     << <<15,15>>, <<14,15>>, <<16,14>>, <<13,16>> >>,
     << <<15,15>>, <<16,16>>, <<14,14>>, <<15,13>> >>,
     << <<15,15>>, <<17,15>>, <<13,13>>, <<14,16>> >>,
     << <<15,15>>, <<16,16>>, <<17,17>>, <<18,18>> >>,
     << <<15,15>>, <<14,14>>, <<13,13>>, <<12,12>> >>,
     << <<15,15>>, <<14,16>>, <<13,17>>, <<12,18>> >>,
     << <<15,15>>, <<16,14>>, <<17,13>>, <<18,12>> >>,
     << <<15,15>>, <<15,16>>, <<15,17>>, <<15,18>> >>,
     << <<15,15>>, <<15,14>>, <<15,13>>, <<15,12>> >>,
     << <<15,15>>, <<16,15>>, <<17,15>>, <<18,15>> >>,
     << <<15,15>>, <<14,16>>, <<13,17>>, <<14,18>> >>,
     << <<15,15>>, <<16,14>>, <<17,13>>, <<16,12>> >>,
     << <<15,15>>, <<14,14>>, <<13,13>>, <<14,12>> >>,
     << <<15,15>>, <<18,15>>, <<16,16>>, <<14,15>> >>,
     << <<15,15>>, <<12,15>>, <<14,14>>, <<16,15>> >> >>

\* The cells of the board, as <<x, y>>.
Cells == (0..(BOARD_SIZE - 1)) \X (0..(BOARD_SIZE - 1))

\* GameState::new: the fields of a fresh GameState.  my_board is the set of
\* cells <<x, y>> with my_board[y][x] = true.
NewGame ==
  [ my_board       |-> {},
    opponent_moves |-> << >>,
    first_move     |-> TRUE,
    total_moves    |-> << >> ]

\* ------------------------------------------------------------------------
\* GameState queries (g is a GameState value)
\* ------------------------------------------------------------------------
is_my_move(g, x, y) == <<x, y>> \in g.my_board

is_opponent_move(g, x, y) ==
  \E i \in 1..Len(g.opponent_moves) : g.opponent_moves[i] = <<x, y>>

is_empty(g, x, y) == ~is_my_move(g, x, y) /\ ~is_opponent_move(g, x, y)

InRange(nx, ny) == nx >= 0 /\ ny >= 0 /\ nx < BOARD_SIZE /\ ny < BOARD_SIZE

\* The inner while loop of count_in_line for one dir: the number of
\* consecutive cells of the side at steps step..4 from (x, y).
RECURSIVE RunFrom(_, _, _, _, _, _, _, _)
RunFrom(g, x, y, dx, dy, dir, step, is_my) ==
  IF step >= 5 THEN 0
  ELSE LET nx == x + dir * dx * step
           ny == y + dir * dy * step
       IN  IF ~InRange(nx, ny) THEN 0
           ELSE IF (IF is_my THEN is_my_move(g, nx, ny)
                             ELSE is_opponent_move(g, nx, ny))
                THEN 1 + RunFrom(g, x, y, dx, dy, dir, step + 1, is_my)
                ELSE 0

\* count_in_line counting the engine's stones whatever the side asked for.
count_in_line_MineOnly(g, x, y, dx, dy, is_my) ==
  1 + RunFrom(g, x, y, dx, dy, -1, 1, TRUE)
    + RunFrom(g, x, y, dx, dy, 1, 1, TRUE)

count_in_line(g, x, y, dx, dy, is_my) ==
  1 + RunFrom(g, x, y, dx, dy, -1, 1, is_my)
    + RunFrom(g, x, y, dx, dy, 1, 1, is_my)

\* is_open_ended: both cells next to (x, y) on the axis are in range and
\* empty (is_my is not read by the code).
OpenEnd(g, x, y, dx, dy, dir) ==
  LET nx == x + dir * dx
      ny == y + dir * dy
  IN  IF InRange(nx, ny) /\ is_empty(g, nx, ny) THEN 1 ELSE 0

is_open_ended(g, x, y, dx, dy, is_my) ==
  OpenEnd(g, x, y, dx, dy, -1) + OpenEnd(g, x, y, dx, dy, 1) = 2

\* ------------------------------------------------------------------------
\* Opening book
\* ------------------------------------------------------------------------
\* The filter of get_debut_move: the debuts that total_moves is a prefix of.
valid_debuts(g) ==
  { d \in 1..Len(all_debuts) :
      \A i \in 1..Len(g.total_moves) :
        ~(i > Len(all_debuts[d]) \/ all_debuts[d][i] # g.total_moves[i]) }

\* What get_debut_move returns for the chosen debut d.  An Option is a set:
\* {} is None, {c} is Some(c).
DebutNext(g, d) ==
  LET total_moves_count == Len(g.total_moves)
      debut == all_debuts[d]
  IN  IF total_moves_count < Len(debut)
         /\ is_empty(g, debut[total_moves_count + 1][1], debut[total_moves_count + 1][2])
      THEN {debut[total_moves_count + 1]}
      ELSE {}

\* get_debut_move: the set of values it can return, one per outcome of
\* valid_debuts.choose(thread_rng).
get_debut_move(g) ==
  IF valid_debuts(g) = {} THEN {{}}
  ELSE { DebutNext(g, d) : d \in valid_debuts(g) }

\* ------------------------------------------------------------------------
\* Scorer
\* ------------------------------------------------------------------------
directions == << <<1, 0>>, <<0, 1>>, <<1, 1>>, <<1, -1>> >>

OppBonus(opp_count) ==
  CASE opp_count = 5 -> 100000
    [] opp_count = 4 -> 10000
    [] opp_count = 3 -> 2000
    [] opp_count = 2 -> 400
    [] OTHER -> 0

MyBonus(my_count) ==
  CASE my_count = 5 -> 100000
    [] my_count = 4 -> 5000
    [] my_count = 3 -> 1000
    [] my_count = 2 -> 300
    [] OTHER -> 0

Abs(n) == IF n < 0 THEN -n ELSE n

\* The body of the loop over directions for one direction k, as
\* <<added to score, added to open_threes_my, added to open_threes_opp,
\*   critical_block set>>.
DirScore(g, x, y, k) ==
  LET dx == directions[k][1]
      dy == directions[k][2]
      my_count  == count_in_line(g, x, y, dx, dy, TRUE)
      opp_count == count_in_line(g, x, y, dx, dy, FALSE)
      my_three  == my_count = 3 /\ is_open_ended(g, x, y, dx, dy, TRUE)
      opp_three == opp_count = 3 /\ is_open_ended(g, x, y, dx, dy, FALSE)
  IN  << (IF opp_three THEN 2500 ELSE 0) + (IF my_three THEN 1500 ELSE 0)
           + OppBonus(opp_count) + MyBonus(my_count),
         IF my_three THEN 1 ELSE 0,
         IF opp_three THEN 1 ELSE 0,
         opp_count >= 4 >>

\* The score of the empty cell (x, y) before the distance is subtracted.
TacticalScore(g, x, y) ==
  LET d1 == DirScore(g, x, y, 1)
      d2 == DirScore(g, x, y, 2)
      d3 == DirScore(g, x, y, 3)
      d4 == DirScore(g, x, y, 4)
      open_threes_my  == d1[2] + d2[2] + d3[2] + d4[2]
      open_threes_opp == d1[3] + d2[3] + d3[3] + d4[3]
      critical_block  == d1[4] \/ d2[4] \/ d3[4] \/ d4[4]
  IN  d1[1] + d2[1] + d3[1] + d4[1]
      + (IF open_threes_my >= 2 THEN 5000 ELSE 0)
      + (IF open_threes_opp >= 2 THEN 7000 ELSE 0)
      + (IF critical_block THEN 100000 ELSE 0)

\* dist: the Manhattan distance of (x, y) from the center.
Distance(x, y) == Abs(x - CENTER) + Abs(y - CENTER)

\* CellScore with the distance weighing as much as the smallest bonus step.
CellScore_HeavyDistance(g, x, y) == TacticalScore(g, x, y) - 100 * Distance(x, y)

\* The score find_best_move gives the empty cell (x, y).
CellScore(g, x, y) == TacticalScore(g, x, y) - Distance(x, y)

Max(S) == CHOOSE s \in S : \A t \in S : t <= s

\* best_moves with the occupied cells scored as well.
best_moves_AnyCell(g) ==
  LET scored == { <<CellScore(g, c[1], c[2]), c>> : c \in Cells }
      best_score == Max({ sc[1] : sc \in scored })
  IN  { sc[2] : sc \in { t \in scored : t[1] = best_score } }

\* best_moves at the end of the scan of find_best_move: the empty cells
\* whose score is the greatest, each as <<score, cell>>.
best_moves(g) ==
  LET scored == { <<CellScore(g, c[1], c[2]), c>> : c \in { e \in Cells : is_empty(g, e[1], e[2]) } }
      best_score == Max({ sc[1] : sc \in scored })
  IN  { sc[2] : sc \in { t \in scored : t[1] = best_score } }

\* The scorer's return value, best_moves.choose(thread_rng): None ({}) when
\* best_moves is empty.
ScorerChoice(bm) == IF bm = {} THEN {{}} ELSE { {m} : m \in bm }

\* Mutant of find_best_move: the opening book is not consulted.
find_best_move_NoBook(g) == ScorerChoice(best_moves(g))

\* find_best_move: the set of values it can return (None is {}), one per
\* outcome of the two random choices.
find_best_move(g) ==
  LET book == get_debut_move(g)
  IN  (book \ {{}}) \cup (IF {} \in book THEN ScorerChoice(best_moves(g)) ELSE {})

\* ------------------------------------------------------------------------
\* Requests and replies
\* ------------------------------------------------------------------------
\* A coordinate as decoded by serde (enum StrOrUsize): a number or a string,
\* the string being a sequence of characters.
Num(n) == [tag |-> "Num", n |-> n, s |-> << >>]
Str(s) == [tag |-> "Str", n |-> 0, s |-> s]

Digits == << "0", "1", "2", "3", "4", "5", "6", "7", "8", "9" >>

IsDigit(ch) == \E d \in 1..10 : Digits[d] = ch

DigitVal(ch) == (CHOOSE d \in 1..10 : Digits[d] = ch) - 1

RECURSIVE DecimalValue(_)
DecimalValue(s) ==
  IF s = << >> THEN 0
  ELSE 10 * DecimalValue(SubSeq(s, 1, Len(s) - 1)) + DigitVal(s[Len(s)])

\* str::parse::<usize>: an optional "+" and at least one decimal digit.
\* The result is an Option as a set: {} is Err.
parse_usize(s) ==
  LET body == IF s # << >> /\ s[1] = "+" THEN Tail(s) ELSE s
  IN  IF body = << >> \/ \E i \in 1..Len(body) : ~IsDigit(body[i])
      THEN {}
      ELSE {DecimalValue(body)}

\* StrOrUsize::as_usize: {} when unwrap() panics.
as_usize(v) == IF v.tag = "Str" THEN parse_usize(v.s) ELSE {v.n}

\* serde_json::from_str::<Command>(line): ok = FALSE is Err(_); otherwise
\* the Command, with opponentMove an Option as a set.
BadJson == [ok |-> FALSE, command |-> "", opponentMove |-> {}]
Cmd(command) == [ok |-> TRUE, command |-> command, opponentMove |-> {}]
MoveCmd(x, y) == [ok |-> TRUE, command |-> "move", opponentMove |-> {[x |-> x, y |-> y]}]
NoLine == [ok |-> FALSE, command |-> "-", opponentMove |-> {}]
\* The mark of a reader that has reached the end of its input.
Eof == [ok |-> FALSE, command |-> "eof", opponentMove |-> {}]

\* The replies: MoveResponse, error(msg), Reply { reply: "ok" }.
MoveResponse(c) == [kind |-> "move", msg |-> "", move |-> c]
Error(msg) == [kind |-> "error", msg |-> msg, move |-> << >>]
ReplyOk == [kind |-> "reply", msg |-> "ok", move |-> << >>]
NoReply == [kind |-> "none", msg |-> "", move |-> << >>]

\* The outcome of the locked block: the GameState it leaves, the reply, and
\* whether the thread panicked inside the block (then there is no reply).
Outcome(g, reply) == [game |-> g, reply |-> reply, panic |-> FALSE]
Panic(g) == [game |-> g, reply |-> NoReply, panic |-> TRUE]

\* ------------------------------------------------------------------------
\* The branches of handle_client's dispatch
\* ------------------------------------------------------------------------
\* GameState::reset
reset(g) ==
  [g EXCEPT !.my_board = {}, !.opponent_moves = << >>,
            !.first_move = TRUE, !.total_moves = << >>]

\* StartBranch setting up a board that holds the opening stone only.
StartBranch_NewBoard(g) ==
  IF g.first_move
  THEN { Outcome([g EXCEPT !.my_board = {<<CENTER, CENTER>>},
                           !.first_move = FALSE],
                 MoveResponse(<<CENTER, CENTER>>)) }
  ELSE { Outcome(g, Error("Not first move")) }

StartBranch(g) ==
  IF g.first_move
  THEN { Outcome([g EXCEPT !.my_board = @ \cup {<<CENTER, CENTER>>},
                           !.first_move = FALSE],
                 MoveResponse(<<CENTER, CENTER>>)) }
  ELSE { Outcome(g, Error("Not first move")) }

\* PlaceBest with the center as the cell of last resort.
PlaceBest_CenterFallback(g, r) ==
  IF r = {}
  THEN Outcome([g EXCEPT !.my_board = @ \cup {<<CENTER, CENTER>>},
                         !.total_moves = Append(@, <<CENTER, CENTER>>)],
               MoveResponse(<<CENTER, CENTER>>))
  ELSE LET b == CHOOSE b \in r : TRUE
       IN  IF is_empty(g, b[1], b[2])
           THEN Outcome([g EXCEPT !.my_board = @ \cup {b},
                                  !.total_moves = Append(@, b)],
                        MoveResponse(b))
           ELSE Outcome(g, Error("Move already taken"))

\* The move branch after the opponent move is recorded: r is the value of
\* find_best_move.
PlaceBest(g, r) ==
  IF r = {} THEN Outcome(g, Error("No valid move found"))
  ELSE LET b == CHOOSE b \in r : TRUE
       IN  IF is_empty(g, b[1], b[2])
           THEN Outcome([g EXCEPT !.my_board = @ \cup {b},
                                  !.total_moves = Append(@, b)],
                        MoveResponse(b))
           ELSE Outcome(g, Error("Move already taken"))

\* The opponent move (x, y) recorded unless it is already in opponent_moves.
RecordOpponent(g, x, y) ==
  IF ~is_opponent_move(g, x, y)
  THEN [g EXCEPT !.opponent_moves = Append(@, <<x, y>>),
                 !.total_moves = Append(@, <<x, y>>)]
  ELSE g

MoveBranch(g, opponentMove) ==
  IF opponentMove = {} THEN { Outcome(g, Error("No opponent move")) }
  ELSE LET c == CHOOSE c \in opponentMove : TRUE
           xs == as_usize(c.x)
           ys == as_usize(c.y)
       IN  IF xs = {} \/ ys = {} THEN { Panic(g) }
           ELSE LET x == CHOOSE x \in xs : TRUE
                    y == CHOOSE y \in ys : TRUE
                    g1 == RecordOpponent(g, x, y)
                IN  { PlaceBest(g1, r) : r \in find_best_move(g1) }

ResetBranch(g) == { Outcome(reset(g), ReplyOk) }

\* The locked block of handle_client on the decoded line: every outcome it
\* can have.
Handle(g, cmd) ==
  IF ~cmd.ok THEN { Outcome(g, Error("Wrong JSON format")) }
  ELSE CASE cmd.command = "start" -> StartBranch(g)
         [] cmd.command = "move"  -> MoveBranch(g, cmd.opponentMove)
         [] cmd.command = "reset" -> ResetBranch(g)
         [] OTHER -> { Outcome(g, Error("Unknown command")) }

\* ------------------------------------------------------------------------
\* Inputs
\* ------------------------------------------------------------------------
\* The lines the clients of Spec send.
Lines ==
  { Cmd("start"), Cmd("reset"),
    MoveCmd(Num(15), Num(15)),
    MoveCmd(Str(<<"1", "6">>), Num(15)),
    MoveCmd(Num(31), Num(15)),
    MoveCmd(Str(<<"a">>), Num(15)) }

\* The lines the clients of SpecErr send.
ErrLines ==
  { Cmd("start"), Cmd("move"), Cmd("stop"), BadJson,
    MoveCmd(Str(<<"a">>), Num(15)) }

\* The lines the client of SpecGame sends.
GameLines ==
  { Cmd("start"),
    MoveCmd(Num(16), Num(15)), MoveCmd(Num(17), Num(15)), MoveCmd(Num(18), Num(15)) }

\* The lines the client of SpecThreat sends: stones on the main diagonal.
ThreatLines ==
  { MoveCmd(Num(13), Num(13)), MoveCmd(Num(14), Num(14)), MoveCmd(Num(15), Num(15)),
    MoveCmd(Num(16), Num(16)), MoveCmd(Num(17), Num(17)) }

\* The lines the clients of SpecEof send.
EofLines == { Cmd("start"), Cmd("reset") }

\* The lines the clients of SpecConc send.
ConcLines == { Cmd("start"), Cmd("reset"), MoveCmd(Str(<<"1", "6">>), Num(15)) }

\* ------------------------------------------------------------------------
\* State
\* ------------------------------------------------------------------------
VARIABLES
  game,       \* the GameState inside the Mutex
  poisoned,   \* the Mutex is poisoned: a thread panicked holding the guard
  lock,       \* the connection holding the MutexGuard, 0 when free
  pc,         \* per connection: where its handle_client thread is
  line,       \* per connection: the decoded line being served
  resp,       \* per connection: the reply computed and not yet written
  snap,       \* per connection: the GameState it found when it took the guard
  nlines,     \* number of non-empty lines read so far
  starts,     \* number of start requests answered with a move since the last reset
  log         \* the requests read, in the order their threads left the locked
              \* block or panicked: the line, the GameState found, the reply
              \* (NoReply: the thread panicked), the GameState left

vars == << game, poisoned, lock, pc, line, resp, snap, nlines, starts, log >>

Request(l, before, reply, after) ==
  [line |-> l, before |-> before, reply |-> reply, after |-> after]

Init ==
  /\ game = NewGame
  /\ poisoned = FALSE
  /\ lock = 0
  /\ pc = [c \in Conns |-> "read"]
  /\ line = [c \in Conns |-> NoLine]
  /\ resp = [c \in Conns |-> NoReply]
  /\ snap = [c \in Conns |-> NewGame]
  /\ nlines = 0
  /\ starts = 0
  /\ log = << >>

\* The count of successful starts since the last reset, after the request l
\* got the reply r.
CountStarts(n, l, r) ==
  IF l = Cmd("start") /\ r.kind = "move" THEN n + 1
  ELSE IF l = Cmd("reset") /\ r.kind = "reply" THEN 0
  ELSE n

\* The line is a move request whose coordinates as_usize can read.
ReadableMove(l) ==
  /\ l.ok
  /\ l.command = "move"
  /\ \E m \in l.opponentMove : as_usize(m.x) # {} /\ as_usize(m.y) # {}

\* The coordinate <<x, y>> of a readable move request.
MoveCoord(l) ==
  LET m == CHOOSE m \in l.opponentMove : TRUE
  IN  << CHOOSE x \in as_usize(m.x) : TRUE, CHOOSE y \in as_usize(m.y) : TRUE >>

\* ------------------------------------------------------------------------
\* The steps of one iteration of handle_client's loop
\* ------------------------------------------------------------------------
\* read_line returns a non-empty line l.
ReadLine(c, L, max) ==
  /\ pc[c] = "read"
  /\ nlines < max
  /\ \E l \in L : line' = [line EXCEPT ![c] = l]
  /\ pc' = [pc EXCEPT ![c] = "lock"]
  /\ nlines' = nlines + 1
  /\ UNCHANGED << game, poisoned, lock, resp, snap, starts, log >>

\* Mutant of MutexFree: the guard is handed out while another thread holds it.
MutexFree_Always(c) == TRUE

\* Whether state.lock() can return to connection c now.
MutexFree(c) == lock = 0

\* state.lock().unwrap(): the guard is taken when the mutex is free; on a
\* poisoned mutex unwrap() panics and the guard is dropped again.
Lock(c) ==
  /\ pc[c] = "lock"
  /\ MutexFree(c)
  /\ IF poisoned
     THEN /\ pc' = [pc EXCEPT ![c] = "panicked"]
          /\ log' = Append(log, Request(line[c], game, NoReply, game))
          /\ UNCHANGED << lock, snap >>
     ELSE /\ pc' = [pc EXCEPT ![c] = "locked"]
          /\ lock' = c
          /\ snap' = [snap EXCEPT ![c] = game]
          /\ UNCHANGED log
  /\ UNCHANGED << game, poisoned, line, resp, nlines, starts >>

\* The end of the locked block with outcome o: the guard is dropped, by the
\* end of the block or by the unwinding of a panic, which poisons the mutex.
Leave(c, o) ==
  /\ game' = o.game
  /\ poisoned' = (poisoned \/ o.panic)
  /\ pc' = [pc EXCEPT ![c] = IF o.panic THEN "panicked" ELSE "write"]
  /\ resp' = [resp EXCEPT ![c] = o.reply]
  /\ snap' = [snap EXCEPT ![c] = NewGame]
  /\ starts' = CountStarts(starts, line[c], o.reply)
  /\ log' = Append(log, Request(line[c], snap[c], o.reply, o.game))
  /\ lock' = IF lock = c THEN 0 ELSE lock
  /\ UNCHANGED << line, nlines >>

\* The block under the guard for every line but a readable move request.
Dispatch(c) ==
  /\ pc[c] = "locked"
  /\ ~ReadableMove(line[c])
  /\ \E o \in Handle(game, line[c]) : Leave(c, o)

\* The move branch, first half: the opponent move is recorded.
DispatchRecord(c) ==
  /\ pc[c] = "locked"
  /\ ReadableMove(line[c])
  /\ game' = RecordOpponent(game, MoveCoord(line[c])[1], MoveCoord(line[c])[2])
  /\ pc' = [pc EXCEPT ![c] = "select"]
  /\ UNCHANGED << poisoned, lock, line, resp, snap, nlines, starts, log >>

\* The move branch, second half: find_best_move and the placement.
DispatchSelect(c) ==
  /\ pc[c] = "select"
  /\ \E r \in find_best_move(game) : Leave(c, PlaceBest(game, r))

\* sock.write_all succeeds: next iteration of the loop.
Write(c) ==
  /\ pc[c] = "write"
  /\ pc' = [pc EXCEPT ![c] = "read"]
  /\ line' = [line EXCEPT ![c] = NoLine]
  /\ resp' = [resp EXCEPT ![c] = NoReply]
  /\ UNCHANGED << game, poisoned, lock, snap, nlines, starts, log >>

\* ------------------------------------------------------------------------
\* One whole iteration of the loop as a single step: a connection of C
\* reads the line l, takes the guard, runs the block and writes the reply.
\* The mutex makes the block atomic on the shared state (SpecConc has the
\* steps apart).
\* ------------------------------------------------------------------------
Serve(C, l, max) ==
  /\ nlines < max
  /\ lock = 0
  /\ nlines' = nlines + 1
  /\ IF poisoned
     THEN /\ \E c \in C :
               /\ pc[c] = "read"
               /\ pc' = [pc EXCEPT ![c] = "panicked"]
          /\ log' = Append(log, Request(l, game, NoReply, game))
          /\ UNCHANGED << game, poisoned, starts >>
     ELSE \E o \in Handle(game, l) :
            /\ game' = o.game
            /\ poisoned' = o.panic
            /\ starts' = CountStarts(starts, l, o.reply)
            /\ log' = Append(log, Request(l, game, o.reply, o.game))
            /\ \E c \in C :
                 /\ pc[c] = "read"
                 /\ pc' = [pc EXCEPT ![c] = IF o.panic THEN "panicked" ELSE "read"]
  /\ UNCHANGED << lock, line, resp, snap >>

Next == \E l \in Lines : Serve(Conns, l, MaxLines)

Spec == Init /\ [][Next]_vars

\* The clients sending requests that are in error.
NextErr == \E l \in ErrLines : Serve(Conns, l, MaxLines)

SpecErr == Init /\ [][NextErr]_vars

\* One client playing a longer game.
NextGame == \E l \in GameLines : Serve({1}, l, MaxGameLines)

SpecGame == Init /\ [][NextGame]_vars

\* One client building a line of four, each line a new stone.
NextThreat ==
  \E l \in ThreatLines :
    /\ ~is_opponent_move(game, MoveCoord(l)[1], MoveCoord(l)[2])
    /\ Serve({1}, l, MaxThreatLines)

SpecThreat == Init /\ [][NextThreat]_vars

\* The iterations of the connections step by step.
NextConc ==
  \E c \in ConcConns :
    \/ ReadLine(c, ConcLines, MaxConcLines)
    \/ Lock(c)
    \/ Dispatch(c)
    \/ DispatchRecord(c)
    \/ DispatchSelect(c)
    \/ Write(c)

SpecConc == Init /\ [][NextConc]_vars

\* ------------------------------------------------------------------------
\* The loop of handle_client with the ends of a connection: the end of the
\* input, blank lines and failing reads and writes.
\* ------------------------------------------------------------------------
\* read_line returns Ok(0): the peer has closed the connection and buf is
\* empty, now and at every later read.
ReadEof(c) ==
  /\ pc[c] = "read"
  /\ line' = [line EXCEPT ![c] = Eof]
  /\ pc' = [pc EXCEPT ![c] = "empty"]
  /\ UNCHANGED << game, poisoned, lock, resp, snap, nlines, starts, log >>

\* read_line returns a line that is blank once trimmed.
ReadBlank(c) ==
  /\ pc[c] = "read"
  /\ line[c] # Eof
  /\ pc' = [pc EXCEPT ![c] = "empty"]
  /\ UNCHANGED << game, poisoned, lock, line, resp, snap, nlines, starts, log >>

\* line.is_empty(): continue.
Continue(c) ==
  /\ pc[c] = "empty"
  /\ pc' = [pc EXCEPT ![c] = "read"]
  /\ UNCHANGED << game, poisoned, lock, line, resp, snap, nlines, starts, log >>

\* read_line returns Err: break.
ReadError(c) ==
  /\ pc[c] = "read"
  /\ pc' = [pc EXCEPT ![c] = "done"]
  /\ UNCHANGED << game, poisoned, lock, line, resp, snap, nlines, starts, log >>

\* sock.write_all returns Err: break.
WriteError(c) ==
  /\ pc[c] = "write"
  /\ pc' = [pc EXCEPT ![c] = "done"]
  /\ UNCHANGED << game, poisoned, lock, line, resp, snap, nlines, starts, log >>

\* The steps the thread of connection c takes by itself: everything but
\* the arrival of a line, the closing of the connection and I/O errors.
Running(c) ==
  \/ Lock(c)
  \/ Dispatch(c)
  \/ Write(c)
  \/ Continue(c)
  \/ (line[c] = Eof /\ ReadEof(c))

NextEof ==
  \E c \in EofConns :
    \/ (line[c] # Eof /\ ReadLine(c, EofLines, MaxEofLines))
    \/ ReadBlank(c)
    \/ ReadEof(c)
    \/ ReadError(c)
    \/ Continue(c)
    \/ Lock(c)
    \/ Dispatch(c)
    \/ Write(c)
    \/ WriteError(c)

\* A running thread is scheduled again and again.
SpecEof == Init /\ [][NextEof]_vars /\ \A c \in EofConns : WF_vars(Running(c))

\* ------------------------------------------------------------------------
\* One client playing until the board is full. The log keeps the last
\* request only.
\* ------------------------------------------------------------------------
\* The empty cells of g.
Empties(g) == { c \in Cells : is_empty(g, c[1], c[2]) }

\* The cell of S that the scan of find_best_move meets first (y outer, x
\* inner): one of the results choose(&mut thread_rng()) may give.
FirstScanned(S) ==
  CHOOSE c \in S : \A d \in S : c[2] < d[2] \/ (c[2] = d[2] /\ c[1] <= d[1])

\* The line the client of SpecFill repeats.
FillLine == MoveCmd(Num(0), Num(0))

\* One whole iteration of the loop on connection 1 with outcome o.
Play(l, o) ==
  /\ nlines < MaxFillLines
  /\ lock = 0
  /\ ~poisoned
  /\ pc[1] = "read"
  /\ nlines' = nlines + 1
  /\ game' = o.game
  /\ poisoned' = o.panic
  /\ starts' = CountStarts(starts, l, o.reply)
  /\ log' = << Request(l, game, o.reply, o.game) >>
  /\ pc' = [pc EXCEPT ![1] = IF o.panic THEN "panicked" ELSE "read"]
  /\ UNCHANGED << lock, line, resp, snap >>

\* Of the outcomes H of a move request, all ending in a placement, the one
\* in which the random choice gives the first of best_moves.
FirstOutcome(H) ==
  CHOOSE o \in H : o.reply.move = FirstScanned({ p.reply.move : p \in H })

\* While more than FreeTail cells are empty the client repeats FillLine and
\* the random choice gives the first of best_moves.
Fill ==
  /\ Cardinality(Empties(game)) > FreeTail
  /\ Play(FillLine, FirstOutcome(Handle(game, FillLine)))

\* With at most FreeTail cells empty: the client repeats FillLine or moves
\* to an empty cell, and the random choice is free.
Endgame ==
  /\ Cardinality(Empties(game)) <= FreeTail
  /\ \E l \in {FillLine} \cup { MoveCmd(Num(c[1]), Num(c[2])) : c \in Empties(game) } :
       \E o \in Handle(game, l) : Play(l, o)

NextFill == Fill \/ Endgame

SpecFill == Init /\ [][NextFill]_vars

\* ------------------------------------------------------------------------
\* Reading the log
\* ------------------------------------------------------------------------
\* The GameState the i-th logged request left.
After(i) == log[i].after

\* The i-th logged request is a start / a reset / a move request carrying an
\* opponent move.
IsStart(i) == log[i].line = Cmd("start")
IsReset(i) == log[i].line = Cmd("reset")
HasMoveData(i) ==
  log[i].line.ok /\ log[i].line.command = "move" /\ log[i].line.opponentMove # {}

\* No reset and no opponent move among the requests strictly between i and j.
Quiet(i, j) == \A k \in (i + 1)..(j - 1) : ~IsReset(k) /\ ~HasMoveData(k)

\* A set of at most one element as a sequence.
SetToSeq(S) == IF S = {} THEN << >> ELSE << CHOOSE e \in S : TRUE >>

\* The stones the i-th logged request put on the board, in the order of
\* placement: the opponent's recorded move, then the engine's stone.
Stones(i) ==
  LET b == log[i].before
      a == After(i)
  IN  IF IsReset(i) THEN << >>
      ELSE SubSeq(a.opponent_moves, Len(b.opponent_moves) + 1, Len(a.opponent_moves))
           \o SetToSeq(a.my_board \ b.my_board)

\* Every stone placed since the last reset up to the i-th logged request,
\* in play order.
RECURSIVE PlayOrder(_)
PlayOrder(i) ==
  IF i = 0 \/ IsReset(i) THEN << >> ELSE PlayOrder(i - 1) \o Stones(i)

IsPrefix(s, t) == Len(s) <= Len(t) /\ \A k \in 1..Len(s) : s[k] = t[k]

\* The thread of the i-th logged request did not panic: the request got a
\* reply.
Served(i) == log[i].reply # NoReply

\* The i-th logged request is a move request that reached find_best_move.
Selected(i) == ReadableMove(log[i].line) /\ Served(i)

\* The GameState at the selection of the i-th logged request, a readable
\* move request: the state found with the opponent's move recorded.
AtSelection(i) ==
  RecordOpponent(log[i].before, MoveCoord(log[i].line)[1], MoveCoord(log[i].line)[2])

\* ------------------------------------------------------------------------
\* C1: on a freshly created or freshly reset GameState a start request is
\* answered with the move (15, 15) and marks that cell as the engine's; a
\* second start before any opponent move or reset is answered with an error
\* and leaves the GameState as it was.
\* ------------------------------------------------------------------------
C1_StartOnFresh ==
  \A i \in 1..Len(log) :
    (IsStart(i) /\ log[i].before = NewGame) =>
      /\ log[i].reply = MoveResponse(<<15, 15>>)
      /\ <<15, 15>> \in After(i).my_board
      /\ \A j \in (i + 1)..Len(log) :
           (IsStart(j) /\ Quiet(i, j)) =>
             /\ log[j].reply.kind = "error"
             /\ After(j) = log[j].before

\* ------------------------------------------------------------------------
\* C2: when, at a move request, after the opponent's move is recorded, some
\* empty cell would complete five in a row for the engine, the reply is a
\* cell that completes five in a row for the engine.
\* ------------------------------------------------------------------------
\* The number of consecutive cells of S after (x, y) in direction (dx, dy).
RECURSIVE Ray(_, _, _, _, _)
Ray(S, x, y, dx, dy) ==
  IF <<x + dx, y + dy>> \in S THEN 1 + Ray(S, x + dx, y + dy, dx, dy) ELSE 0

\* A stone of the engine on the empty cell c makes a line of five or more.
MakesFive(g, c) ==
  /\ is_empty(g, c[1], c[2])
  /\ \E k \in 1..4 :
       1 + Ray(g.my_board, c[1], c[2], directions[k][1], directions[k][2])
         + Ray(g.my_board, c[1], c[2], -directions[k][1], -directions[k][2]) >= 5

C2_TakesTheWin ==
  LET i == Len(log)
  IN  (i > 0 /\ Selected(i) /\ \E c \in Cells : MakesFive(AtSelection(i), c))
      => (log[i].reply.kind = "move" /\ MakesFive(AtSelection(i), log[i].reply.move))

\* ------------------------------------------------------------------------
\* C3: a stone is recorded only on a cell that is in range and empty just
\* before, otherwise the board is untouched and a failure is reported; so no
\* cell is both the engine's and the opponent's and every recorded opponent
\* coordinate is inside the board.
\* ------------------------------------------------------------------------
C3_PlacementChecked ==
  /\ \A k \in 1..Len(game.opponent_moves) :
       InRange(game.opponent_moves[k][1], game.opponent_moves[k][2])
  /\ \A c \in game.my_board : ~is_opponent_move(game, c[1], c[2])
  /\ \A i \in 1..Len(log) :
       /\ (Selected(i)
             /\ ~(InRange(MoveCoord(log[i].line)[1], MoveCoord(log[i].line)[2])
                  /\ is_empty(log[i].before, MoveCoord(log[i].line)[1],
                              MoveCoord(log[i].line)[2])))
          => (After(i) = log[i].before /\ log[i].reply.kind = "error")
       /\ (IsStart(i) /\ Served(i) /\ ~is_empty(log[i].before, CENTER, CENTER))
          => (After(i) = log[i].before /\ log[i].reply.kind = "error")

\* ------------------------------------------------------------------------
\* C4: a reset request returns the GameState to its initial value whatever
\* the state it is issued in, and a reset after a reset leaves the state of
\* the single reset.
\* ------------------------------------------------------------------------
C4_ResetToInitial ==
  /\ \A i \in 1..Len(log) :
       IsReset(i) =>
         /\ log[i].reply = ReplyOk
         /\ After(i) = NewGame
         /\ After(i).my_board = {} /\ After(i).opponent_moves = << >>
         /\ After(i).total_moves = << >> /\ After(i).first_move
         /\ (i < Len(log) /\ IsReset(i + 1)) => After(i + 1) = After(i)
  /\ reset(reset(game)) = reset(game)

\* ------------------------------------------------------------------------
\* C5: the move history lists every stone placed by either side since the
\* last reset in play order, the engine's center stone of start included,
\* and is only appended to until the next reset.
\* ------------------------------------------------------------------------
C5_HistoryComplete ==
  /\ game.total_moves = PlayOrder(Len(log))
  /\ \A i \in 1..Len(log) :
       ~IsReset(i) => IsPrefix(log[i].before.total_moves, After(i).total_moves)

\* ------------------------------------------------------------------------
\* C6: when the history at selection is a strict prefix of exactly one book
\* sequence whose next cell is empty, the reply is that next entry.
\* ------------------------------------------------------------------------
\* The book sequences that h is a strict prefix of.
BooksOf(h) ==
  { d \in 1..Len(all_debuts) : Len(h) < Len(all_debuts[d]) /\ IsPrefix(h, all_debuts[d]) }

\* The entry after h in the only book sequence of BooksOf(h).
BookNext(h) == all_debuts[CHOOSE d \in BooksOf(h) : TRUE][Len(h) + 1]

\* The i-th logged request selects a move in a position of the book with
\* one continuation, which is free.
InBook(i) ==
  /\ Selected(i)
  /\ Cardinality(BooksOf(AtSelection(i).total_moves)) = 1
  /\ is_empty(AtSelection(i), BookNext(AtSelection(i).total_moves)[1],
              BookNext(AtSelection(i).total_moves)[2])

C6_BookMoveTaken ==
  \A i \in 1..Len(log) :
    InBook(i) =>
      /\ log[i].reply = MoveResponse(BookNext(AtSelection(i).total_moves))
      /\ BookNext(AtSelection(i).total_moves) \in After(i).my_board

\* A move was selected in a position of the book with one continuation.
C6_Witness == \E i \in 1..Len(log) : InBook(i) /\ log[i].reply.kind = "move"

\* ------------------------------------------------------------------------
\* C7: from a reset state, start and then the opponent move (16, 15): the
\* reply is an empty cell, neither (15, 15) nor (16, 15), that touches one
\* of the two stones, whatever the random choices.
\* ------------------------------------------------------------------------
Adjacent(a, b) == a # b /\ Abs(a[1] - b[1]) <= 1 /\ Abs(a[2] - b[2]) <= 1

\* The j-th logged request is the opponent move (16, 15) after the start i
\* on a fresh GameState, with no reset and no other opponent move between.
StartThenMove(i, j) ==
  /\ IsStart(i) /\ log[i].before = NewGame
  /\ i < j /\ Quiet(i, j)
  /\ ReadableMove(log[j].line) /\ MoveCoord(log[j].line) = <<16, 15>>

C7_ReplyNextToCluster ==
  \A i \in 1..Len(log) : \A j \in 1..Len(log) :
    StartThenMove(i, j) =>
      /\ log[j].reply.kind = "move"
      /\ log[j].reply.move \notin { <<15, 15>>, <<16, 15>> }
      /\ log[j].reply.move \in Cells
      /\ is_empty(AtSelection(j), log[j].reply.move[1], log[j].reply.move[2])
      /\ \/ Adjacent(log[j].reply.move, <<15, 15>>)
         \/ Adjacent(log[j].reply.move, <<16, 15>>)

\* ------------------------------------------------------------------------
\* C8: a start when the first move was already played, a move request
\* without opponent move, an unknown command and a line that is no command
\* each get an error reply and leave the GameState as it was.
\* ------------------------------------------------------------------------
RejectedStart(i) == IsStart(i) /\ ~log[i].before.first_move
MoveWithoutData(i) ==
  log[i].line.ok /\ log[i].line.command = "move" /\ log[i].line.opponentMove = {}
UnknownCommand(i) ==
  log[i].line.ok /\ log[i].line.command \notin {"start", "move", "reset"}
NotACommand(i) == ~log[i].line.ok

C8_ErrorsKeepState ==
  \A i \in 1..Len(log) :
    (RejectedStart(i) \/ MoveWithoutData(i) \/ UnknownCommand(i) \/ NotACommand(i))
    => (log[i].reply.kind = "error" /\ After(i) = log[i].before)

\* ------------------------------------------------------------------------
\* C9: malformed input is never fatal: a move request whose coordinate is
\* no number gets an error reply, the GameState is left as it was, no
\* connection's thread dies and every later request gets a reply.
\* ------------------------------------------------------------------------
C9_MalformedNotFatal ==
  /\ \A c \in Conns : pc[c] # "panicked"
  /\ ~poisoned
  /\ \A i \in 1..Len(log) :
       /\ Served(i)
       /\ (HasMoveData(i) /\ ~ReadableMove(log[i].line))
          => (log[i].reply.kind = "error" /\ After(i) = log[i].before)

\* ------------------------------------------------------------------------
\* C10: the block of a request runs under the mutex, one connection at a
\* time, on the GameState the previous request left; between two resets at
\* most one start succeeds.
\* ------------------------------------------------------------------------
C10_RequestsAtomic ==
  /\ \A c \in Conns : pc[c] \in {"locked", "select"} => lock = c
  /\ \A c \in Conns : pc[c] = "locked" => game = snap[c]
  /\ \A c \in Conns :
       pc[c] = "select" =>
         game = RecordOpponent(snap[c], MoveCoord(line[c])[1], MoveCoord(line[c])[2])
  /\ \A i \in 1..Len(log) :
       log[i].before = IF i = 1 THEN NewGame ELSE log[i - 1].after
  /\ (\A c \in Conns : pc[c] # "select") => game = IF log = << >> THEN NewGame
                                                     ELSE log[Len(log)].after
  /\ starts <= 1

\* One connection is between the two halves of a move request while
\* another one waits for the guard with a reset.
C10_Witness ==
  \E c \in Conns : \E d \in Conns :
    pc[c] = "select" /\ pc[d] = "lock" /\ line[d] = Cmd("reset")

\* ------------------------------------------------------------------------
\* C11: a move request that finds no empty cell once the opponent's move is
\* recorded is answered with the error "No valid move found"; the engine
\* places no stone and appends nothing of its own, and the recorded
\* opponent move is kept.
\* ------------------------------------------------------------------------
C11_NoValidMove ==
  \A i \in 1..Len(log) :
    (Selected(i) /\ Empties(AtSelection(i)) = {}) =>
      /\ log[i].reply = Error("No valid move found")
      /\ After(i).my_board = log[i].before.my_board
      /\ After(i).opponent_moves = AtSelection(i).opponent_moves
      /\ After(i).total_moves = AtSelection(i).total_moves

\* The opponent takes the last empty cell and the engine has none left.
C11_Witness ==
  \E i \in 1..Len(log) :
    /\ Selected(i)
    /\ Empties(log[i].before) # {}
    /\ Empties(AtSelection(i)) = {}
    /\ Len(After(i).total_moves) = Len(log[i].before.total_moves) + 1

\* ------------------------------------------------------------------------
\* C12: between two resets occupancy only grows: a cell marked as the
\* engine's or recorded as the opponent's stays so through every request
\* that is not a reset; only a reset empties cells.
\* ------------------------------------------------------------------------
\* The cells recorded as the opponent's in g.
OpponentCells(g) == { g.opponent_moves[k] : k \in 1..Len(g.opponent_moves) }

\* Every cell occupied in a is occupied by the same side in b.
KeepsStones(a, b) ==
  /\ a.my_board \subseteq b.my_board
  /\ OpponentCells(a) \subseteq OpponentCells(b)

C12_OccupancyGrows ==
  /\ \A i \in 1..Len(log) : ~IsReset(i) => KeepsStones(log[i].before, After(i))
  /\ \A i \in 1..Len(log) : \A j \in i..Len(log) :
       (\A k \in (i + 1)..j : ~IsReset(k)) => KeepsStones(After(i), After(j))

\* Stones of both sides on the board, and a later request adds to them.
C12_Witness ==
  \E i \in 1..Len(log) : \E j \in (i + 1)..Len(log) :
    /\ \A k \in (i + 1)..j : ~IsReset(k)
    /\ After(i).my_board # {}
    /\ OpponentCells(After(i)) # {}
    /\ After(i).my_board # After(j).my_board

\* ------------------------------------------------------------------------
\* C13: whenever the scorer runs, for every empty cell and each of the four
\* axes, if the engine's stone on the cell would be part of five or more
\* consecutive engine stones on the axis, the axis is credited with the
\* bonus for five, 100000.
\* ------------------------------------------------------------------------
\* The length of the line of engine stones on axis k through the cell c,
\* the engine's stone on c included.
LineThrough(g, c, k) ==
  1 + Ray(g.my_board, c[1], c[2], directions[k][1], directions[k][2])
    + Ray(g.my_board, c[1], c[2], -directions[k][1], -directions[k][2])

C13_FiveCredited ==
  \A i \in 1..Len(log) :
    (Selected(i) /\ {} \in get_debut_move(AtSelection(i))) =>
      \A c \in Empties(AtSelection(i)) : \A k \in 1..4 :
        LineThrough(AtSelection(i), c, k) >= 5 =>
          MyBonus(count_in_line(AtSelection(i), c[1], c[2],
                                directions[k][1], directions[k][2], TRUE)) = 100000

\* ------------------------------------------------------------------------
\* C14: a start request is accepted only when no stone of either side has
\* been placed since the last reset; once a move request has been processed
\* no start is accepted until the next reset.
\* ------------------------------------------------------------------------
\* The i-th logged request is a start answered with the opening move.
StartAccepted(i) == IsStart(i) /\ log[i].reply.kind = "move"

C14_StartOnlyOnEmptyBoard ==
  /\ \A i \in 1..Len(log) :
       StartAccepted(i) =>
         (log[i].before.my_board = {} /\ log[i].before.opponent_moves = << >>)
  /\ \A i \in 1..Len(log) : \A j \in (i + 1)..Len(log) :
       (Selected(i) /\ \A k \in (i + 1)..(j - 1) : ~IsReset(k)) => ~StartAccepted(j)

\* ------------------------------------------------------------------------
\* C15: whenever the scorer runs, for every empty cell, axis and side, if
\* the side's stone on the cell would form a run of exactly three whose two
\* flanking cells are in range and empty, the scorer counts an open three
\* of that side on the axis and adds the open-three bonus; a run that
\* touches the edge of the board is never counted as open.
\* ------------------------------------------------------------------------
\* The cells of the side in g.
SideCells(g, is_my) == IF is_my THEN g.my_board ELSE OpponentCells(g)

\* The two cells flanking the run of the side through c on axis k, the
\* side's stone on c included.
Flanks(g, c, k, is_my) ==
  LET dx == directions[k][1]
      dy == directions[k][2]
      f == Ray(SideCells(g, is_my), c[1], c[2], dx, dy)
      b == Ray(SideCells(g, is_my), c[1], c[2], -dx, -dy)
  IN  { << c[1] + (f + 1) * dx, c[2] + (f + 1) * dy >>,
        << c[1] - (b + 1) * dx, c[2] - (b + 1) * dy >> }

RunLength(g, c, k, is_my) ==
  1 + Ray(SideCells(g, is_my), c[1], c[2], directions[k][1], directions[k][2])
    + Ray(SideCells(g, is_my), c[1], c[2], -directions[k][1], -directions[k][2])

\* The side's stone on c makes an open three on axis k.
OpenThree(g, c, k, is_my) ==
  /\ RunLength(g, c, k, is_my) = 3
  /\ \A e \in Flanks(g, c, k, is_my) : InRange(e[1], e[2]) /\ is_empty(g, e[1], e[2])

\* What the scorer counts and adds for the side on axis k at c.
CountedOpenThree(g, c, k, is_my) ==
  LET dx == directions[k][1]
      dy == directions[k][2]
  IN  /\ DirScore(g, c[1], c[2], k)[IF is_my THEN 2 ELSE 3] = 1
      /\ DirScore(g, c[1], c[2], k)[1] >=
           (IF is_my THEN 1500 ELSE 2500)
           + OppBonus(count_in_line(g, c[1], c[2], dx, dy, FALSE))
           + MyBonus(count_in_line(g, c[1], c[2], dx, dy, TRUE))

C15_OpenThreeCounted ==
  \A i \in 1..Len(log) :
    (Selected(i) /\ {} \in get_debut_move(AtSelection(i))) =>
      \A c \in Empties(AtSelection(i)) : \A k \in 1..4 : \A is_my \in BOOLEAN :
        /\ OpenThree(AtSelection(i), c, k, is_my)
             => CountedOpenThree(AtSelection(i), c, k, is_my)
        /\ CountedOpenThree(AtSelection(i), c, k, is_my)
             => \A e \in Flanks(AtSelection(i), c, k, is_my) : InRange(e[1], e[2])

\* ------------------------------------------------------------------------
\* C16: when, at a move request, after the opponent's move is recorded, some
\* empty cell would complete exactly five in a row for the opponent and no
\* empty cell would complete five in a row for the engine, the reply is a
\* cell that completes five in a row for the opponent.
\* ------------------------------------------------------------------------
\* The length of the line of opponent stones on the board through the cell
\* c on axis k, an opponent stone on c included.
OpponentLine(g, c, k) ==
  1 + Ray(OpponentCells(g) \cap Cells, c[1], c[2], directions[k][1], directions[k][2])
    + Ray(OpponentCells(g) \cap Cells, c[1], c[2], -directions[k][1], -directions[k][2])

\* An opponent stone on the empty cell c makes a line of exactly five.
OpponentExactFive(g, c) ==
  is_empty(g, c[1], c[2]) /\ \E k \in 1..4 : OpponentLine(g, c, k) = 5

\* An opponent stone on the empty cell c makes a line of five or more.
BlocksFive(g, c) ==
  is_empty(g, c[1], c[2]) /\ \E k \in 1..4 : OpponentLine(g, c, k) >= 5

\* The last logged request found an immediate five of the opponent and
\* none of the engine.
OpponentThreat ==
  /\ Len(log) > 0
  /\ Selected(Len(log))
  /\ \E c \in Cells : OpponentExactFive(AtSelection(Len(log)), c)
  /\ \A c \in Cells : ~MakesFive(AtSelection(Len(log)), c)

C16_BlocksTheFive ==
  OpponentThreat =>
    /\ log[Len(log)].reply.kind = "move"
    /\ BlocksFive(AtSelection(Len(log)), log[Len(log)].reply.move)

\* The opponent made four in a row with a free end, no cell being held by
\* both sides, and the engine took the free end.
C16_Witness ==
  /\ OpponentThreat
  /\ AtSelection(Len(log)).my_board \cap OpponentCells(AtSelection(Len(log))) = {}
  /\ log[Len(log)].reply.kind = "move"
  /\ OpponentExactFive(AtSelection(Len(log)), log[Len(log)].reply.move)

\* ------------------------------------------------------------------------
\* C17: the distance from the center only breaks ties: whenever the scorer
\* runs, of two empty cells with different scores before the distance is
\* subtracted the one with the higher has the higher final score, and the
\* cell the scorer returns is, among the empty cells of equal score before
\* the distance, one closest to the center.
\* ------------------------------------------------------------------------
\* For each empty cell of g: the score before the distance, the final score
\* and the distance.
ScoreTable(g) ==
  { << TacticalScore(g, c[1], c[2]), CellScore(g, c[1], c[2]), Distance(c[1], c[2]) >> :
      c \in Empties(g) }

\* The last logged request had the scorer choose among empty cells.
ScorerRan ==
  /\ Len(log) > 0
  /\ Selected(Len(log))
  /\ get_debut_move(AtSelection(Len(log))) = {{}}
  /\ Empties(AtSelection(Len(log))) # {}

\* In the table of the empty cells a higher score before the distance is a
\* higher final score, and no cell with the score tb before the distance is
\* closer to the center than db.
TieBreakOnly(table, tb, db) ==
  /\ \A s \in table : \A t \in table : s[1] > t[1] => s[2] > t[2]
  /\ \A t \in table : t[1] = tb => db <= t[3]

C17_DistanceBreaksTies ==
  ScorerRan =>
    /\ log[Len(log)].reply.kind = "move"
    /\ TieBreakOnly(ScoreTable(AtSelection(Len(log))),
                    TacticalScore(AtSelection(Len(log)),
                                  log[Len(log)].reply.move[1], log[Len(log)].reply.move[2]),
                    Distance(log[Len(log)].reply.move[1], log[Len(log)].reply.move[2]))

\* A cell with a higher score before the distance that is farther from the
\* center than one with a lower score; and a cell that ties with the
\* returned cell before the distance and is farther away than it.
FartherCells(table, tb, db) ==
  /\ \E s \in table : \E t \in table : s[1] > t[1] /\ s[3] > t[3]
  /\ \E t \in table : t[1] = tb /\ db < t[3]

C17_Witness ==
  /\ ScorerRan
  /\ log[Len(log)].reply.kind = "move"
  /\ FartherCells(ScoreTable(AtSelection(Len(log))),
                  TacticalScore(AtSelection(Len(log)),
                                log[Len(log)].reply.move[1], log[Len(log)].reply.move[2]),
                  Distance(log[Len(log)].reply.move[1], log[Len(log)].reply.move[2]))

\* ------------------------------------------------------------------------
\* C18: a move request whose coordinate is already recorded as an opponent
\* move is not an error and records nothing for the opponent:
\* opponent_moves never holds a coordinate twice and the history gets no
\* second opponent entry; the request proceeds to the selection and the
\* engine replies with and places a new stone.
\* ------------------------------------------------------------------------
\* The i-th logged request is a move request whose coordinate was already
\* recorded as an opponent move.
DuplicateMove(i) ==
  /\ ReadableMove(log[i].line)
  /\ MoveCoord(log[i].line) \in OpponentCells(log[i].before)

C18_DuplicateMoveServed ==
  /\ \A k \in 1..Len(game.opponent_moves) : \A n \in 1..Len(game.opponent_moves) :
       game.opponent_moves[k] = game.opponent_moves[n] => k = n
  /\ \A i \in 1..Len(log) :
       DuplicateMove(i) =>
         /\ log[i].reply.kind = "move"
         /\ After(i).opponent_moves = log[i].before.opponent_moves
         /\ log[i].reply.move \notin log[i].before.my_board
         /\ After(i).my_board = log[i].before.my_board \cup {log[i].reply.move}
         /\ After(i).total_moves = Append(log[i].before.total_moves, log[i].reply.move)

\* ------------------------------------------------------------------------
\* C19: whenever the selection of a move request returns a cell, the cell
\* is in range and empty at the placement, so the reply "Move already
\* taken" never occurs; after a move reply the returned cell is the
\* engine's and is the last entry of the history.
\* ------------------------------------------------------------------------
C19_SelectedCellFree ==
  \A i \in 1..Len(log) :
    /\ log[i].reply # Error("Move already taken")
    /\ (Selected(i) /\ log[i].reply.kind = "move") =>
         /\ log[i].reply.move \in Cells
         /\ is_empty(AtSelection(i), log[i].reply.move[1], log[i].reply.move[2])
         /\ log[i].reply.move \in After(i).my_board
         /\ Len(After(i).total_moves) > 0
         /\ After(i).total_moves[Len(After(i).total_moves)] = log[i].reply.move

\* A move request on a board that holds stones of both sides is answered
\* with a cell.
C19_Witness ==
  \E i \in 1..Len(log) :
    /\ Selected(i)
    /\ log[i].reply.kind = "move"
    /\ AtSelection(i).my_board # {}
    /\ Len(AtSelection(i).opponent_moves) > 1

\* ------------------------------------------------------------------------
\* C20: once the read of a connection has reached the end of the input the
\* loop of its handler eventually ends; and at any time every non-empty
\* line read has got one reply or is still in the locked block.
\* ------------------------------------------------------------------------
C20_LoopEnds ==
  /\ [](nlines = Len(log) + Cardinality({ c \in EofConns : pc[c] \in {"lock", "locked"} }))
  /\ \A c \in EofConns : (line[c] = Eof) ~> (pc[c] = "done")

====
